---- MODULE Spec2Model ----
(***************************************************************************)
(* mouscache: the in-memory cache engine (src/mouscache/src/memory_cache.rs) *)
(* as a state machine.  The three top-level stores of Inner are the state:   *)
(* obj_cache (typed objects with optional expiration), hashsets (field ->    *)
(* value containers) and sets (unique-member containers).  Every public      *)
(* operation of CacheAccess / CacheFunc is one action; `last` records the    *)
(* operation that has just returned: its arguments, its result and what it  *)
(* found under its key.                                                      *)
(***************************************************************************)
EXTENDS Integers, Sequences, FiniteSets, TLC

VARIABLES
    now,        \* the reading of Instant::now(), in seconds
    obj_cache,  \* Inner.obj_cache: namespaced key -> (object, optional expiration)
    hashsets,   \* Inner.hashsets: key -> (field -> value)
    sets,       \* Inner.sets: key -> set of members
    inserted,   \* history: namespaced key -> the latest insert not followed by a remove
    lapsed,     \* history: namespaced keys a get saw expired, with no insert since
    last,       \* the call that has just returned
    thr,        \* the threads sharing the cache: the call each is in and where in it
    lk          \* the RwLocks of Inner: its three maps and each container

vars == <<now, obj_cache, hashsets, sets, inserted, lapsed, last, thr, lk>>

(***************************************************************************)
(* Bounds of the model.                                                      *)
(***************************************************************************)
\* the clock runs from 0 to MaxTime seconds
MaxTime == 2
\* time-to-live values (seconds) passed to insert_with
MaxTtl == 1
\* members are the numbers 1..MaxMember
MaxMember == 2
\* the longest key list passed to an algebra operation
MaxKeys == 2
\* the longest member list passed to add
MaxAdd == 2
\* field values are the numbers 1..MaxValue
MaxValue == 2
\* the longest field list passed to get_multiple or delete
MaxFields == 2

(***************************************************************************)
(* Rust values: Option<T>, Result<T>, and a panic that unwinds the call.     *)
(***************************************************************************)
None == <<>>
Some(x) == <<x>>
IsSome(o) == o # <<>>
Unwrap(o) == o[1]

Ok(x) == [kind |-> "Ok", val |-> x]
Err(msg) == [kind |-> "Err", val |-> msg]
Panic(msg) == [kind |-> "Panic", val |-> msg]

(***************************************************************************)
(* Typed object store.                                                       *)
(***************************************************************************)
\* the Cacheable types the callers store, and the strings used as keys;
\* strings are sequences of characters so that format! is a concatenation
Types == {"T1", "T2"}
Keys == {<<"k">>, <<"b", ":", "k">>}
\* the (type, key) pairs the callers use
Requests == {<<"T1", <<"k">>>>, <<"T1", <<"b", ":", "k">>>>, <<"T2", <<"k">>>>}
Vals == {"x", "y"}
Ttls == 0..MaxTtl

\* Cacheable::model_name of each type
model_name(T) == IF T = "T1" THEN <<"a">> ELSE <<"a", ":", "b">>

\* the objects of type T
Objs(T) == {[typ |-> T, val |-> v] : v \in Vals}

\* Cacheable::expires_after: the default TTL an object declares
expires_after(obj) == IF obj.typ = "T1" THEN None ELSE Some(1)

\* K::to_string of a key that is a string already
to_string(key) == key

\* a key derivation that leaves the type identity out
gen_key_untyped(T, key) == to_string(key)

gen_key(T, key) == model_name(T) \o <<":">> \o to_string(key)

TKeys == {gen_key(r[1], r[2]) : r \in Requests}

Expiration_new(ttl, t) == [insertion_time |-> t, ttl |-> ttl]

\* a comparison that lets an entry live for the instant at which its ttl is reached
is_expired_strict(exp, t) == t - exp.insertion_time > exp.ttl

is_expired(exp, t) ==
    LET time_since_insertion == t - exp.insertion_time
    IN  time_since_insertion >= exp.ttl

\* HashMap helpers: a map is a function whose DOMAIN is the set of its keys
MapGet(m, k) == IF k \in DOMAIN m THEN Some(m[k]) ELSE None
MapInsert(m, k, v) == [x \in DOMAIN m \cup {k} |-> IF x = k THEN v ELSE m[x]]
MapRemove(m, k) == [x \in DOMAIN m \ {k} |-> m[x]]
EmptyMap == <<>>

\* an overwrite that keeps the expiration of the entry it replaces
insert_with_keeps_expiration(cache, T, key, obj, expires_after_arg, t) ==
    LET tkey == gen_key(T, key)
        exp == IF tkey \in DOMAIN cache THEN cache[tkey].exp
               ELSE IF IsSome(expires_after_arg)
               THEN Some([insertion_time |-> t, ttl |-> Unwrap(expires_after_arg)])
               ELSE None
    IN  MapInsert(cache, tkey, [obj |-> obj, exp |-> exp])

\* insert_with: the store after the call
insert_with_store(cache, T, key, obj, expires_after_arg, t) ==
    LET tkey == gen_key(T, key)
        exp == IF IsSome(expires_after_arg)
               THEN Some(Expiration_new(Unwrap(expires_after_arg), t))
               ELSE None
    IN  MapInsert(cache, tkey, [obj |-> obj, exp |-> exp])

\* get: whether the entry found is to be deleted (delete_entry)
get_delete_entry(cache, T, key, t) ==
    LET tkey == gen_key(T, key)
    IN  /\ tkey \in DOMAIN cache
        /\ IsSome(cache[tkey].exp)
        /\ is_expired(Unwrap(cache[tkey].exp), t)

\* get: the result of the call
get_result(cache, T, key, t) ==
    LET tkey == gen_key(T, key)
    IN  IF tkey \in DOMAIN cache /\ ~get_delete_entry(cache, T, key, t)
        THEN IF cache[tkey].obj.typ = T
             THEN Ok(Some(cache[tkey].obj))
             ELSE Panic("Invalid type in mouscache")
        ELSE Ok(None)

\* a get that reports an expired entry absent and leaves it in the store
get_store_keeps_expired(cache, T, key, t) == cache

\* get: the store after the call
get_store(cache, T, key, t) ==
    IF get_delete_entry(cache, T, key, t)
    THEN MapRemove(cache, gen_key(T, key))
    ELSE cache

\* a contains_key that reports an expired entry absent
contains_key_checks_expiry(cache, T, key) ==
    LET tkey == gen_key(T, key)
    IN  Ok(/\ tkey \in DOMAIN cache
           /\ (IsSome(cache[tkey].exp) =>
                 now - Unwrap(cache[tkey].exp).insertion_time < Unwrap(cache[tkey].exp).ttl))

contains_key_result(cache, T, key) == Ok(gen_key(T, key) \in DOMAIN cache)

remove_store(cache, T, key) == MapRemove(cache, gen_key(T, key))

(***************************************************************************)
(* Set container store and set algebra.                                      *)
(***************************************************************************)
\* the keys of set containers, the members callers pass (V: ToString) and the
\* key lists of the algebra operations
SetKeys == {"a", "b", "d"}
Members == 1..MaxMember
KeyLists == UNION {[1..n -> SetKeys] : n \in 0..MaxKeys}
MemberLists == UNION {[1..n -> Members] : n \in 0..MaxAdd}

\* V::to_string of a member
member_to_string(m) == ToString(m)

\* Inner::set_exists
set_exists(s, key) == IsSome(MapGet(s, key))

\* Inner::ensure_set_exists: the store after the call
ensure_set_exists_store(s, key) ==
    IF set_exists(s, key) THEN s ELSE MapInsert(s, key, {})

\* Inner::ensure_set_exists: the result of the call; HashMap::insert returns the
\* container it replaced, if any
ensure_set_exists_result(s, key) ==
    IF set_exists(s, key)
    THEN Ok(TRUE)
    ELSE IF IsSome(MapGet(s, key))
         THEN Err("Unable to insert a new hashset")
         ELSE Ok(TRUE)

\* set_add of members already turned into strings: the store after the call
set_add_store(s, key, strs) ==
    LET s1 == ensure_set_exists_store(s, key)
    IN  IF ensure_set_exists_result(s, key).kind = "Err"
        THEN s1
        ELSE IF key \in DOMAIN s1
             THEN MapInsert(s1, key, s1[key] \cup strs)
             ELSE s1

\* set_add: the result of the call
set_add_result(s, key, strs) ==
    LET s1 == ensure_set_exists_store(s, key)
    IN  IF ensure_set_exists_result(s, key).kind = "Err"
        THEN ensure_set_exists_result(s, key)
        ELSE IF key \in DOMAIN s1
             THEN Ok(TRUE)
             ELSE Err("Unable to retrive set from key")

\* set_card
set_card(s, key) == IF key \in DOMAIN s THEN Ok(Cardinality(s[key])) ELSE Ok(0)

\* keys.iter().filter_map(|key| sets.get(key)): the keys that have a container,
\* in list order
siter(s, keys) == SelectSeq(keys, LAMBDA k : k \in DOMAIN s)

RECURSIVE fold_difference(_, _, _)
fold_difference(diff_set, s, ks) ==
    IF ks = <<>> THEN diff_set
    ELSE fold_difference(diff_set \ s[Head(ks)], s, Tail(ks))

RECURSIVE fold_intersection(_, _, _)
fold_intersection(inter_set, s, ks) ==
    IF ks = <<>> THEN inter_set
    ELSE fold_intersection(inter_set \cap s[Head(ks)], s, Tail(ks))

RECURSIVE fold_union(_, _, _)
fold_union(union_set, s, ks) ==
    IF ks = <<>> THEN union_set
    ELSE fold_union(union_set \cup s[Head(ks)], s, Tail(ks))

\* set_diff, set_inter, set_union: the members of the returned Vec (its order is
\* the iteration order of a HashSet, which is unspecified)
set_diff(s, keys) ==
    LET it == siter(s, keys)
    IN  IF it # <<>> THEN fold_difference(s[Head(it)], s, Tail(it)) ELSE {}

\* an intersection that takes a key with no container for an empty set
set_inter_missing_is_empty(s, keys) ==
    IF keys = <<>> THEN {}
    ELSE LET sets_of == [i \in 1..Len(keys) |->
                           IF keys[i] \in DOMAIN s THEN s[keys[i]] ELSE {}]
         IN  {m \in sets_of[1] : \A i \in 1..Len(keys) : m \in sets_of[i]}

set_inter(s, keys) ==
    LET it == siter(s, keys)
    IN  IF it # <<>> THEN fold_intersection(s[Head(it)], s, Tail(it)) ELSE {}

set_union(s, keys) ==
    LET it == siter(s, keys)
    IN  IF it # <<>> THEN fold_union(s[Head(it)], s, Tail(it)) ELSE {}

\* the algebra a store variant runs
algebra(op, s, keys) ==
    CASE op = "diffstore" -> set_diff(s, keys)
      [] op = "interstore" -> set_inter(s, keys)
      [] op = "unionstore" -> set_union(s, keys)

\* set_diffstore, set_interstore, set_unionstore: what the call returns once
\* set_add has returned `added` for the computed members res
store_return(added, res) ==
    IF added = Ok(TRUE) THEN Ok(Cardinality(res)) ELSE Ok(0)

\* the store variants: the store after the call
store_variant_store(op, s, name, keys) ==
    LET s1 == ensure_set_exists_store(s, name)
    IN  IF ensure_set_exists_result(s, name).kind = "Err"
        THEN s1
        ELSE IF siter(s1, keys) # <<>>
             THEN set_add_store(s1, name, algebra(op, s1, keys))
             ELSE s1

\* the store variants: what set_add returned to them (None if it was not called)
store_variant_added(op, s, name, keys) ==
    LET s1 == ensure_set_exists_store(s, name)
    IN  IF ensure_set_exists_result(s, name).kind = "Ok" /\ siter(s1, keys) # <<>>
        THEN Some(set_add_result(s1, name, algebra(op, s1, keys)))
        ELSE None

\* the store variants: the result of the call
store_variant_result(op, s, name, keys) ==
    LET s1 == ensure_set_exists_store(s, name)
    IN  IF ensure_set_exists_result(s, name).kind = "Err"
        THEN ensure_set_exists_result(s, name)
        ELSE IF siter(s1, keys) # <<>>
             THEN store_return(set_add_result(s1, name, algebra(op, s1, keys)),
                               algebra(op, s1, keys))
             ELSE Ok(0)

\* set_move: the result of the call; sets[key2] panics when key2 has no container
set_move_result(s, key1, key2, member) ==
    LET set_member == member_to_string(member)
    IN  IF key1 \in DOMAIN s
        THEN IF set_member \in s[key1]
             THEN IF key2 \in DOMAIN s
                  THEN Ok(TRUE)
                  ELSE Panic("key not found in HashMap index")
             ELSE Ok(FALSE)
        ELSE Ok(FALSE)

\* set_move: the store after the call
set_move_store(s, key1, key2, member) ==
    LET set_member == member_to_string(member)
    IN  IF key1 \in DOMAIN s /\ set_member \in s[key1] /\ key2 \in DOMAIN s
        THEN LET s1 == MapInsert(s, key2, s[key2] \cup {set_member})
             IN  MapInsert(s1, key1, s1[key1] \ {set_member})
        ELSE s

\* a remove that drops the container once its last member is gone
set_rem_drops_empty(s, key, member) ==
    IF key \in DOMAIN s
    THEN IF s[key] \ {member_to_string(member)} = {}
         THEN MapRemove(s, key)
         ELSE MapInsert(s, key, s[key] \ {member_to_string(member)})
    ELSE s

\* set_rem
set_rem_result(s, key, member) ==
    IF key \in DOMAIN s THEN Ok(member_to_string(member) \in s[key]) ELSE Ok(FALSE)

set_rem_store(s, key, member) ==
    IF key \in DOMAIN s
    THEN MapInsert(s, key, s[key] \ {member_to_string(member)})
    ELSE s

\* set_ismember
set_ismember(s, key, member) ==
    IF key \in DOMAIN s THEN Ok(member_to_string(member) \in s[key]) ELSE Ok(FALSE)

\* set_members: the members of the returned Vec
set_members(s, key) == IF key \in DOMAIN s THEN Ok(s[key]) ELSE Ok({})

(***************************************************************************)
(* Field-value container store.                                              *)
(***************************************************************************)
\* the keys of field-value containers, the fields, the values callers pass
\* (V: ToString) and the field lists of get_multiple and delete
HashKeys == {"h", "g"}
Fields == {"f1", "f2"}
Values == 1..MaxValue
FieldLists == UNION {[1..n -> Fields] : n \in 0..MaxFields}

\* V::to_string of a value
value_to_string(v) == ToString(v)

\* Inner::hash_exists
hash_exists(h, key) == IsSome(MapGet(h, key))

\* Inner::ensure_hash_exists: the store after the call
ensure_hash_exists_store(h, key) ==
    IF hash_exists(h, key) THEN h ELSE MapInsert(h, key, EmptyMap)

\* Inner::ensure_hash_exists: the result of the call
ensure_hash_exists_result(h, key) ==
    IF hash_exists(h, key)
    THEN Ok(TRUE)
    ELSE IF IsSome(MapGet(h, key))
         THEN Err("Unable to insert a new hashmap")
         ELSE Ok(TRUE)

\* hash_set: the store after the call
hash_set_store(h, key, field, value) ==
    LET h1 == ensure_hash_exists_store(h, key)
    IN  IF ensure_hash_exists_result(h, key).kind = "Ok" /\ key \in DOMAIN h1
        THEN MapInsert(h1, key, MapInsert(h1[key], field, value_to_string(value)))
        ELSE h1

\* hash_set: the result of the call
hash_set_result(h, key, field, value) ==
    LET h1 == ensure_hash_exists_store(h, key)
    IN  IF ensure_hash_exists_result(h, key).kind = "Err"
        THEN ensure_hash_exists_result(h, key)
        ELSE IF key \in DOMAIN h1
             THEN Ok(TRUE)
             ELSE Err("Unable to retrive hash from key")

\* hash_delete: the container after the fields of the list are removed, one by one
RECURSIVE remove_fields(_, _)
remove_fields(hash, fields) ==
    IF fields = <<>> THEN hash
    ELSE remove_fields(MapRemove(hash, Head(fields)), Tail(fields))

\* a delete that creates the container first, as the writes do
hash_delete_creates(h, key, fields) ==
    LET h1 == ensure_hash_exists_store(h, key)
    IN  MapInsert(h1, key, remove_fields(h1[key], fields))

hash_delete_store(h, key, fields) ==
    IF key \in DOMAIN h THEN MapInsert(h, key, remove_fields(h[key], fields)) ELSE h

\* hash_multiple_get: the Vec returned; a push for each field, in order, when the
\* container exists and no push at all when it does not
hash_multiple_get(h, key, fields) ==
    IF key \in DOMAIN h
    THEN Ok([i \in 1..Len(fields) |-> MapGet(h[key], fields[i])])
    ELSE Ok(<<>>)

\* the types T: FromStr a field is read as, and T::from_str
ScalarTypes == {"String", "u64"}

from_str(T, str) ==
    IF T = "String" THEN Ok(str)
    ELSE IF \E n \in 0..MaxValue : ToString(n) = str
         THEN Ok(CHOOSE n \in 0..MaxValue : ToString(n) = str)
         ELSE Err("invalid digit found in string")

\* hash_exists (the CacheFunc method)
hash_field_exists(h, key, field) ==
    IF key \in DOMAIN h THEN Ok(field \in DOMAIN h[key]) ELSE Ok(FALSE)

\* hash_get
hash_get(h, key, field, T) ==
    IF key \in DOMAIN h /\ field \in DOMAIN h[key]
    THEN IF from_str(T, h[key][field]).kind = "Ok"
         THEN Ok(Some(from_str(T, h[key][field]).val))
         ELSE Err("Unable to parse value into desired type")
    ELSE Ok(None)

\* hash_keys: the elements of the returned Vec
hash_keys(h, key) == IF key \in DOMAIN h THEN Ok(DOMAIN h[key]) ELSE Ok({})

\* hash_len
hash_len(h, key) == IF key \in DOMAIN h THEN Ok(Cardinality(DOMAIN h[key])) ELSE Ok(0)

\* hash_values: the elements of the returned Vec with their multiplicities
hash_values(h, key) ==
    IF key \in DOMAIN h
    THEN Ok([v \in {h[key][f] : f \in DOMAIN h[key]} |->
               Cardinality({f \in DOMAIN h[key] : h[key][f] = v})])
    ELSE Ok(EmptyMap)

\* no call has returned since the caller took the last result
Idle == [op |-> "idle"]

(***************************************************************************)
(* Threads and locks.                                                      *)
(***************************************************************************)
\* the threads that hold a clone of the MemoryCache (the Arc<Inner>)
Threads == {"t1", "t2"}

\* the RwLocks: one around each map of Inner, one around each container
LockIds == {"obj_cache", "hashsets", "sets"} \cup SetKeys \cup HashKeys

\* RwLock::new: no reader, no writer.  r counts the read guards each thread
\* holds, w is the thread that has set the writer bit (it holds the lock once
\* the readers are gone, and waits for them until then)
RwLock_new == [r |-> [t \in Threads |-> 0], w |-> None]

\* RwLock::read can proceed: the policy is fair to writers, a reader is let in
\* only while no writer holds or waits for the lock, also when the thread
\* already holds a read guard of it
read_ok(l, L) == l[L].w = None

\* RwLock::read and the drop of the guard
lock_shared(l, L, t) == [l EXCEPT ![L].r[t] = @ + 1]
unlock_shared(l, L, t) == [l EXCEPT ![L].r[t] = @ - 1]

\* RwLock::write returns: the thread has the writer bit and no read guard is out
write_ok(l, L, t) == l[L].w = Some(t) /\ \A u \in Threads : l[L].r[u] = 0

\* the drop of the write guard
unlock_exclusive(l, L) == [l EXCEPT ![L].w = None]

\* the local variables of a call: the keys that have a container (siter), the
\* position in them, the accumulator of the fold, and whether the call is in
\* the set_add a store variant ends with
NoLocals == [keys |-> <<>>, i |-> 0, acc |-> {}, inner |-> FALSE]

\* a thread that has not called yet
Resting == [pc |-> "idle", c |-> Idle, v |-> NoLocals, ret |-> None]

\* the first step of each operation
Entry(op) ==
    CASE op = "add" -> "ensure_set"
      [] op \in {"diffstore", "interstore", "unionstore"} -> "ensure_set"
      [] op \in {"diff", "inter", "union"} -> "alg_top"
      [] op = "remove_member" -> "rem_top"
      [] op = "is_member" -> "ism_top"
      [] op = "move_member" -> "move_top"
      [] op \in {"set_if_not_exists", "set_multiple"} -> "ensure_hash"
      [] op \in {"get_multiple", "keys", "values", "len"} -> "hread_top"
      [] op = "get" -> "get_read"
      [] op = "insert_with" -> "insert_exp"

\* the lock a thread asks for in write mode at the steps that write
Wants(th) ==
    CASE th.pc = "ensure_set_write" -> "sets"
      [] th.pc = "ensure_hash_write" -> "hashsets"
      [] th.pc \in {"add_write", "rem_write", "move_src_write", "sine_write",
                    "mset_write"} -> th.c.key
      [] th.pc = "move_dst_write" -> th.c.key2
      [] th.pc \in {"get_write", "insert_write"} -> "obj_cache"
      [] OTHER -> "none"

\* what the history keeps of an insert: the object, the TTL asked for, the time
\* of the call and whether it overwrote an entry that had an expiration
History(obj, ttl, t, found) ==
    [obj |-> obj, ttl |-> ttl, at |-> t,
     over |-> IsSome(found) /\ IsSome(Unwrap(found).exp)]

Init ==
    /\ now = 0
    /\ obj_cache = EmptyMap
    /\ hashsets = EmptyMap
    /\ sets = EmptyMap
    /\ inserted = EmptyMap
    /\ lapsed = {}
    /\ last = Idle
    /\ thr = [t \in Threads |-> Resting]
    /\ lk = [L \in LockIds |-> RwLock_new]

\* time passes (Instant::now() is monotonic)
Tick ==
    /\ last = Idle
    /\ now < MaxTime
    /\ now' = now + 1
    /\ UNCHANGED <<obj_cache, hashsets, sets, inserted, lapsed, last, thr, lk>>

\* the caller takes the result of the call that has returned; calls are issued
\* one at a time
Return ==
    /\ last # Idle
    /\ last' = Idle
    /\ UNCHANGED <<now, obj_cache, hashsets, sets, inserted, lapsed, thr, lk>>

InsertWith ==
    \E T \in Types, key \in Keys, ttl \in {None} \cup {Some(s) : s \in Ttls} :
      \E obj \in Objs(T) :
        /\ last = Idle
        /\ <<T, key>> \in Requests
        /\ obj_cache' = insert_with_store(obj_cache, T, key, obj, ttl, now)
        /\ inserted' = MapInsert(inserted, gen_key(T, key),
                                  History(obj, ttl, now, MapGet(obj_cache, gen_key(T, key))))
        /\ lapsed' = lapsed \ {gen_key(T, key)}
        /\ last' = [op |-> "insert_with", typ |-> T, key |-> key, obj |-> obj,
                    ttl |-> ttl, ret |-> Ok(TRUE)]
        /\ UNCHANGED <<now, hashsets, sets, thr, lk>>

Insert ==
    \E T \in Types, key \in Keys :
      \E obj \in Objs(T) :
        /\ last = Idle
        /\ <<T, key>> \in Requests
        /\ obj_cache' = insert_with_store(obj_cache, T, key, obj, expires_after(obj), now)
        /\ inserted' = MapInsert(inserted, gen_key(T, key),
                                  History(obj, expires_after(obj), now,
                                          MapGet(obj_cache, gen_key(T, key))))
        /\ lapsed' = lapsed \ {gen_key(T, key)}
        /\ last' = [op |-> "insert", typ |-> T, key |-> key, obj |-> obj,
                    ttl |-> expires_after(obj), ret |-> Ok(TRUE)]
        /\ UNCHANGED <<now, hashsets, sets, thr, lk>>

Get ==
    \E T \in Types, key \in Keys :
        /\ last = Idle
        /\ <<T, key>> \in Requests
        /\ obj_cache' = get_store(obj_cache, T, key, now)
        /\ lapsed' = IF get_delete_entry(obj_cache, T, key, now)
                     THEN lapsed \cup {gen_key(T, key)}
                     ELSE lapsed
        /\ last' = [op |-> "get", typ |-> T, key |-> key,
                    ret |-> get_result(obj_cache, T, key, now),
                    found |-> MapGet(obj_cache, gen_key(T, key))]
        /\ UNCHANGED <<now, hashsets, sets, inserted, thr, lk>>

ContainsKey ==
    \E T \in Types, key \in Keys :
        /\ last = Idle
        /\ <<T, key>> \in Requests
        /\ last' = [op |-> "contains_key", typ |-> T, key |-> key,
                    ret |-> contains_key_result(obj_cache, T, key),
                    found |-> MapGet(obj_cache, gen_key(T, key))]
        /\ UNCHANGED <<now, obj_cache, hashsets, sets, inserted, lapsed, thr, lk>>

Remove ==
    \E T \in Types, key \in Keys :
        /\ last = Idle
        /\ <<T, key>> \in Requests
        /\ obj_cache' = remove_store(obj_cache, T, key)
        /\ inserted' = MapRemove(inserted, gen_key(T, key))
        /\ last' = [op |-> "remove", typ |-> T, key |-> key, ret |-> Ok(TRUE)]
        /\ UNCHANGED <<now, hashsets, sets, lapsed, thr, lk>>

NextObj == Tick \/ InsertWith \/ Insert \/ Get \/ ContainsKey \/ Remove \/ Return

SpecObj == Init /\ [][NextObj]_vars

(***************************************************************************)
(* Set operations.                                                           *)
(***************************************************************************)
SetAdd ==
    \E key \in SetKeys, members \in MemberLists :
        LET strs == {member_to_string(members[i]) : i \in 1..Len(members)}
        IN  /\ last = Idle
            /\ sets' = set_add_store(sets, key, strs)
            /\ last' = [op |-> "add", key |-> key, members |-> members,
                        ret |-> set_add_result(sets, key, strs), pre |-> sets]
            /\ UNCHANGED <<now, obj_cache, hashsets, inserted, lapsed, thr, lk>>

SetRem ==
    \E key \in SetKeys, member \in Members :
        /\ last = Idle
        /\ sets' = set_rem_store(sets, key, member)
        /\ last' = [op |-> "remove_member", key |-> key, member |-> member,
                    ret |-> set_rem_result(sets, key, member), pre |-> sets]
        /\ UNCHANGED <<now, obj_cache, hashsets, inserted, lapsed, thr, lk>>

SetMove ==
    \E key1 \in SetKeys, key2 \in SetKeys, member \in Members :
        /\ last = Idle
        /\ sets' = set_move_store(sets, key1, key2, member)
        /\ last' = [op |-> "move_member", key1 |-> key1, key2 |-> key2,
                    member |-> member,
                    ret |-> set_move_result(sets, key1, key2, member), pre |-> sets]
        /\ UNCHANGED <<now, obj_cache, hashsets, inserted, lapsed, thr, lk>>

SetDiff ==
    \E keys \in KeyLists :
        /\ last = Idle
        /\ last' = [op |-> "diff", keys |-> keys, ret |-> Ok(set_diff(sets, keys)),
                    pre |-> sets]
        /\ UNCHANGED <<now, obj_cache, hashsets, sets, inserted, lapsed, thr, lk>>

SetInter ==
    \E keys \in KeyLists :
        /\ last = Idle
        /\ last' = [op |-> "inter", keys |-> keys, ret |-> Ok(set_inter(sets, keys)),
                    pre |-> sets]
        /\ UNCHANGED <<now, obj_cache, hashsets, sets, inserted, lapsed, thr, lk>>

SetUnion ==
    \E keys \in KeyLists :
        /\ last = Idle
        /\ last' = [op |-> "union", keys |-> keys, ret |-> Ok(set_union(sets, keys)),
                    pre |-> sets]
        /\ UNCHANGED <<now, obj_cache, hashsets, sets, inserted, lapsed, thr, lk>>

SetDiffstore ==
    \E name \in SetKeys, keys \in KeyLists :
        /\ last = Idle
        /\ sets' = store_variant_store("diffstore", sets, name, keys)
        /\ last' = [op |-> "diffstore", name |-> name, keys |-> keys,
                    added |-> store_variant_added("diffstore", sets, name, keys),
                    ret |-> store_variant_result("diffstore", sets, name, keys), pre |-> sets]
        /\ UNCHANGED <<now, obj_cache, hashsets, inserted, lapsed, thr, lk>>

SetInterstore ==
    \E name \in SetKeys, keys \in KeyLists :
        /\ last = Idle
        /\ sets' = store_variant_store("interstore", sets, name, keys)
        /\ last' = [op |-> "interstore", name |-> name, keys |-> keys,
                    added |-> store_variant_added("interstore", sets, name, keys),
                    ret |-> store_variant_result("interstore", sets, name, keys), pre |-> sets]
        /\ UNCHANGED <<now, obj_cache, hashsets, inserted, lapsed, thr, lk>>

SetUnionstore ==
    \E name \in SetKeys, keys \in KeyLists :
        /\ last = Idle
        /\ sets' = store_variant_store("unionstore", sets, name, keys)
        /\ last' = [op |-> "unionstore", name |-> name, keys |-> keys,
                    added |-> store_variant_added("unionstore", sets, name, keys),
                    ret |-> store_variant_result("unionstore", sets, name, keys), pre |-> sets]
        /\ UNCHANGED <<now, obj_cache, hashsets, inserted, lapsed, thr, lk>>

SetCard ==
    \E key \in SetKeys :
        /\ last = Idle
        /\ last' = [op |-> "card", key |-> key, ret |-> set_card(sets, key),
                    pre |-> sets]
        /\ UNCHANGED <<now, obj_cache, hashsets, sets, inserted, lapsed, thr, lk>>

SetIsmember ==
    \E key \in SetKeys, member \in Members :
        /\ last = Idle
        /\ last' = [op |-> "is_member", key |-> key, member |-> member,
                    ret |-> set_ismember(sets, key, member), pre |-> sets]
        /\ UNCHANGED <<now, obj_cache, hashsets, sets, inserted, lapsed, thr, lk>>

SetMembers ==
    \E key \in SetKeys :
        /\ last = Idle
        /\ last' = [op |-> "members", key |-> key, ret |-> set_members(sets, key),
                    pre |-> sets]
        /\ UNCHANGED <<now, obj_cache, hashsets, sets, inserted, lapsed, thr, lk>>

NextSet ==
    \/ SetAdd \/ SetRem \/ SetMove
    \/ SetCard \/ SetIsmember \/ SetMembers
    \/ SetDiff \/ SetInter \/ SetUnion
    \/ SetDiffstore \/ SetInterstore \/ SetUnionstore
    \/ Return

SpecSet == Init /\ [][NextSet]_vars

\* the errors set_add can return
SetAddErrors == {Err("Unable to insert a new hashset"), Err("Unable to retrive set from key")}

StoreOps == {"diffstore", "interstore", "unionstore"}

\* a store variant whose destination write is forced to fail: set_add returns one
\* of its errors to the store variant instead of writing
SetStoreWriteFails ==
    \E op \in StoreOps, name \in SetKeys, keys \in KeyLists, e \in SetAddErrors :
        LET s1 == ensure_set_exists_store(sets, name)
        IN  /\ last = Idle
            /\ ensure_set_exists_result(sets, name).kind = "Ok"
            /\ siter(s1, keys) # <<>>
            /\ sets' = s1
            /\ last' = [op |-> op, name |-> name, keys |-> keys, added |-> Some(e),
                        ret |-> store_return(e, algebra(op, s1, keys)), pre |-> sets]
            /\ UNCHANGED <<now, obj_cache, hashsets, inserted, lapsed, thr, lk>>

NextSetFault == NextSet \/ SetStoreWriteFails

SpecSetFault == Init /\ [][NextSetFault]_vars

(***************************************************************************)
(* Hash operations.                                                          *)
(***************************************************************************)
HashSet ==
    \E key \in HashKeys, field \in Fields, value \in Values :
        /\ last = Idle
        /\ hashsets' = hash_set_store(hashsets, key, field, value)
        /\ last' = [op |-> "set", key |-> key, field |-> field, value |-> value,
                    ret |-> hash_set_result(hashsets, key, field, value),
                    pre |-> hashsets]
        /\ UNCHANGED <<now, obj_cache, sets, inserted, lapsed, thr, lk>>

HashDelete ==
    \E key \in HashKeys, fields \in FieldLists :
        /\ last = Idle
        /\ hashsets' = hash_delete_store(hashsets, key, fields)
        /\ last' = [op |-> "delete", key |-> key, fields |-> fields,
                    ret |-> Ok(TRUE), pre |-> hashsets]
        /\ UNCHANGED <<now, obj_cache, sets, inserted, lapsed, thr, lk>>

HashMultipleGet ==
    \E key \in HashKeys, fields \in FieldLists :
        /\ last = Idle
        /\ last' = [op |-> "get_multiple", key |-> key, fields |-> fields,
                    ret |-> hash_multiple_get(hashsets, key, fields),
                    pre |-> hashsets]
        /\ UNCHANGED <<now, obj_cache, hashsets, sets, inserted, lapsed, thr, lk>>

HashExists ==
    \E key \in HashKeys, field \in Fields :
        /\ last = Idle
        /\ last' = [op |-> "exists", key |-> key, field |-> field,
                    ret |-> hash_field_exists(hashsets, key, field), pre |-> hashsets]
        /\ UNCHANGED <<now, obj_cache, hashsets, sets, inserted, lapsed, thr, lk>>

HashGet ==
    \E key \in HashKeys, field \in Fields, T \in ScalarTypes :
        /\ last = Idle
        /\ last' = [op |-> "get_field", key |-> key, field |-> field, typ |-> T,
                    ret |-> hash_get(hashsets, key, field, T), pre |-> hashsets]
        /\ UNCHANGED <<now, obj_cache, hashsets, sets, inserted, lapsed, thr, lk>>

HashKeysOf ==
    \E key \in HashKeys :
        /\ last = Idle
        /\ last' = [op |-> "keys", key |-> key, ret |-> hash_keys(hashsets, key),
                    pre |-> hashsets]
        /\ UNCHANGED <<now, obj_cache, hashsets, sets, inserted, lapsed, thr, lk>>

HashValues ==
    \E key \in HashKeys :
        /\ last = Idle
        /\ last' = [op |-> "values", key |-> key, ret |-> hash_values(hashsets, key),
                    pre |-> hashsets]
        /\ UNCHANGED <<now, obj_cache, hashsets, sets, inserted, lapsed, thr, lk>>

HashLen ==
    \E key \in HashKeys :
        /\ last = Idle
        /\ last' = [op |-> "len", key |-> key, ret |-> hash_len(hashsets, key),
                    pre |-> hashsets]
        /\ UNCHANGED <<now, obj_cache, hashsets, sets, inserted, lapsed, thr, lk>>

NextHash ==
    \/ HashSet \/ HashDelete \/ HashMultipleGet
    \/ HashExists \/ HashGet \/ HashKeysOf \/ HashValues \/ HashLen
    \/ Return

SpecHash == Init /\ [][NextHash]_vars

(***************************************************************************)
(* The whole engine.  The three stores share no state: an operation of one   *)
(* store leaves the other two unchanged, so each store is explored under its *)
(* own specification (SpecObj, SpecHash, SpecSet).                           *)
(***************************************************************************)
Next == NextObj \/ NextHash \/ NextSet

Spec == Init /\ [][Next]_vars

\* the two container stores together, for the behaviours in which the callers
\* use one of them: no hash operation reads or writes `sets` and no set
\* operation reads or writes `hashsets`
NextColl ==
    \/ (sets = EmptyMap /\ HashSet)
    \/ (sets = EmptyMap /\ HashDelete)
    \/ (sets = EmptyMap /\ HashMultipleGet)
    \/ (sets = EmptyMap /\ HashExists)
    \/ (sets = EmptyMap /\ HashGet)
    \/ (sets = EmptyMap /\ HashKeysOf)
    \/ (sets = EmptyMap /\ HashValues)
    \/ (sets = EmptyMap /\ HashLen)
    \/ (hashsets = EmptyMap /\ SetAdd)
    \/ (hashsets = EmptyMap /\ SetRem)
    \/ (hashsets = EmptyMap /\ SetMove)
    \/ (hashsets = EmptyMap /\ SetCard)
    \/ (hashsets = EmptyMap /\ SetIsmember)
    \/ (hashsets = EmptyMap /\ SetMembers)
    \/ (hashsets = EmptyMap /\ SetDiff)
    \/ (hashsets = EmptyMap /\ SetInter)
    \/ (hashsets = EmptyMap /\ SetUnion)
    \/ (hashsets = EmptyMap /\ SetDiffstore)
    \/ (hashsets = EmptyMap /\ SetInterstore)
    \/ (hashsets = EmptyMap /\ SetUnionstore)
    \/ Return

SpecColl == Init /\ [][NextColl]_vars

(***************************************************************************)
(* The whole-object view of a field-value container.                       *)
(***************************************************************************)
\* hash_set_all: self.insert(key, cacheable).map(|_| true)
HashSetAll ==
    \E T \in Types, key \in Keys :
      \E obj \in Objs(T) :
        /\ last = Idle
        /\ <<T, key>> \in Requests
        /\ obj_cache' = insert_with_store(obj_cache, T, key, obj, expires_after(obj), now)
        /\ inserted' = MapInsert(inserted, gen_key(T, key),
                                  History(obj, expires_after(obj), now,
                                          MapGet(obj_cache, gen_key(T, key))))
        /\ lapsed' = lapsed \ {gen_key(T, key)}
        /\ last' = [op |-> "set_all", typ |-> T, key |-> key, obj |-> obj,
                    ttl |-> expires_after(obj), ret |-> Ok(TRUE)]
        /\ UNCHANGED <<now, hashsets, sets, thr, lk>>

\* hash_get_all: self.get::<&str, T>(key)
HashGetAll ==
    \E T \in Types, key \in Keys :
        /\ last = Idle
        /\ <<T, key>> \in Requests
        /\ obj_cache' = get_store(obj_cache, T, key, now)
        /\ lapsed' = IF get_delete_entry(obj_cache, T, key, now)
                     THEN lapsed \cup {gen_key(T, key)}
                     ELSE lapsed
        /\ last' = [op |-> "get_all", typ |-> T, key |-> key,
                    ret |-> get_result(obj_cache, T, key, now),
                    found |-> MapGet(obj_cache, gen_key(T, key))]
        /\ UNCHANGED <<now, hashsets, sets, inserted, thr, lk>>

\* hash_set under a key that whole objects are stored under
HashSetOfObject ==
    \E key \in Keys, field \in Fields, value \in Values :
        /\ last = Idle
        /\ hashsets' = hash_set_store(hashsets, key, field, value)
        /\ last' = [op |-> "set", key |-> key, field |-> field, value |-> value,
                    ret |-> hash_set_result(hashsets, key, field, value)]
        /\ UNCHANGED <<now, obj_cache, sets, inserted, lapsed, thr, lk>>

\* hash_len under a key that whole objects are stored under
HashLenOfObject ==
    \E key \in Keys :
        /\ last = Idle
        /\ last' = [op |-> "len", key |-> key, ret |-> hash_len(hashsets, key)]
        /\ UNCHANGED <<now, obj_cache, hashsets, sets, inserted, lapsed, thr, lk>>

NextWhole ==
    Tick \/ HashSetAll \/ HashGetAll \/ HashSetOfObject \/ HashLenOfObject \/ Return

SpecWhole == Init /\ [][NextWhole]_vars

(***************************************************************************)
(* The operations step by step, as threads sharing the cache run them.  A  *)
(* step is what a thread does from one lock acquisition to the next; a     *)
(* guard taken and dropped inside one expression is taken and dropped       *)
(* inside one step.                                                         *)
(***************************************************************************)
\* the thread has returned from its call
Finish(th, result) == [th EXCEPT !.pc = "done", !.ret = Some(result)]

\* a thread calls an operation
Begin(t, c) ==
    /\ thr[t].pc = "idle"
    /\ thr' = [thr EXCEPT ![t] = [pc |-> Entry(c.op), c |-> c, v |-> NoLocals, ret |-> None]]
    /\ UNCHANGED <<now, obj_cache, hashsets, sets, inserted, lapsed, last, lk>>

\* RwLock::write, first half: the thread sets the writer bit, which it can do
\* while read guards are out; from then on no new reader is let in
LockExclusive(t) ==
    /\ Wants(thr[t]) # "none"
    /\ lk[Wants(thr[t])].w = None
    /\ lk' = [lk EXCEPT ![Wants(thr[t])].w = Some(t)]
    /\ UNCHANGED <<now, obj_cache, hashsets, sets, inserted, lapsed, last, thr>>

\* where a call goes on after ensure_set_exists: set_add takes the map again, a
\* store variant starts its algebra
AfterEnsure(th) == IF th.c.op = "add" \/ th.v.inner THEN "add_top" ELSE "alg_top"

\* Inner::ensure_set_exists, the check: self.sets.read().get(key).is_some()
EnsureSetCheck(t) ==
    /\ thr[t].pc = "ensure_set"
    /\ read_ok(lk, "sets")
    /\ thr' = [thr EXCEPT ![t].pc = IF set_exists(sets, thr[t].c.key)
                                    THEN AfterEnsure(thr[t])
                                    ELSE "ensure_set_write"]
    /\ UNCHANGED <<now, obj_cache, hashsets, sets, inserted, lapsed, last, lk>>

\* Inner::ensure_set_exists, the insert under self.sets.write(): the key gets a
\* new empty container, whatever it had; Err when it had one
EnsureSetInsert(t) ==
    /\ thr[t].pc = "ensure_set_write"
    /\ write_ok(lk, "sets", t)
    /\ sets' = MapInsert(sets, thr[t].c.key, {})
    /\ lk' = unlock_exclusive(lk, "sets")
    /\ thr' = [thr EXCEPT ![t] =
                 IF thr[t].c.key \in DOMAIN sets
                 THEN Finish(thr[t], Err("Unable to insert a new hashset"))
                 ELSE [thr[t] EXCEPT !.pc = AfterEnsure(thr[t])]]
    /\ UNCHANGED <<now, obj_cache, hashsets, inserted, lapsed, last>>

\* set_add: let sets = self.inner.sets.read(); sets.get(key)
AddTop(t) ==
    /\ thr[t].pc = "add_top"
    /\ read_ok(lk, "sets")
    /\ IF thr[t].c.key \in DOMAIN sets
       THEN /\ lk' = lock_shared(lk, "sets", t)
            /\ thr' = [thr EXCEPT ![t].pc = "add_write"]
       ELSE /\ lk' = IF thr[t].v.inner THEN unlock_shared(lk, "sets", t) ELSE lk
            /\ thr' = [thr EXCEPT ![t] =
                         Finish(thr[t], IF thr[t].v.inner THEN Ok(0)
                                        ELSE Err("Unable to retrive set from key"))]
    /\ UNCHANGED <<now, obj_cache, hashsets, sets, inserted, lapsed, last>>

\* set_add: set.write(), the inserts, Ok(true); a store variant returns
\* res.len() and drops its own guard of the map as well
AddInsert(t) ==
    LET th == thr[t]
        strs == IF th.v.inner THEN th.v.acc
                ELSE {member_to_string(th.c.members[i]) : i \in 1..Len(th.c.members)}
        l1 == unlock_shared(unlock_exclusive(lk, th.c.key), "sets", t)
    IN  /\ th.pc = "add_write"
        /\ write_ok(lk, th.c.key, t)
        /\ sets' = [sets EXCEPT ![th.c.key] = @ \cup strs]
        /\ lk' = IF th.v.inner THEN unlock_shared(l1, "sets", t) ELSE l1
        /\ thr' = [thr EXCEPT ![t] =
                     Finish(th, IF th.v.inner THEN Ok(Cardinality(th.v.acc)) ELSE Ok(TRUE))]
        /\ UNCHANGED <<now, obj_cache, hashsets, inserted, lapsed, last>>

\* set_rem: let sets = self.inner.sets.read(); sets.get(key)
RemTop(t) ==
    /\ thr[t].pc = "rem_top"
    /\ read_ok(lk, "sets")
    /\ IF thr[t].c.key \in DOMAIN sets
       THEN /\ lk' = lock_shared(lk, "sets", t)
            /\ thr' = [thr EXCEPT ![t].pc = "rem_write"]
       ELSE /\ lk' = lk
            /\ thr' = [thr EXCEPT ![t] = Finish(thr[t], Ok(FALSE))]
    /\ UNCHANGED <<now, obj_cache, hashsets, sets, inserted, lapsed, last>>

\* set_rem: Ok(set.write().remove(&member.to_string()))
RemRemove(t) ==
    LET th == thr[t]
        str == member_to_string(th.c.member)
    IN  /\ th.pc = "rem_write"
        /\ write_ok(lk, th.c.key, t)
        /\ sets' = [sets EXCEPT ![th.c.key] = @ \ {str}]
        /\ lk' = unlock_shared(unlock_exclusive(lk, th.c.key), "sets", t)
        /\ thr' = [thr EXCEPT ![t] = Finish(th, Ok(str \in sets[th.c.key]))]
        /\ UNCHANGED <<now, obj_cache, hashsets, inserted, lapsed, last>>

\* set_ismember: let sets = self.inner.sets.read(); sets.get(key)
IsmemberTop(t) ==
    /\ thr[t].pc = "ism_top"
    /\ read_ok(lk, "sets")
    /\ IF thr[t].c.key \in DOMAIN sets
       THEN /\ lk' = lock_shared(lk, "sets", t)
            /\ thr' = [thr EXCEPT ![t].pc = "ism_read"]
       ELSE /\ lk' = lk
            /\ thr' = [thr EXCEPT ![t] = Finish(thr[t], Ok(FALSE))]
    /\ UNCHANGED <<now, obj_cache, hashsets, sets, inserted, lapsed, last>>

\* set_ismember: Ok(set.read().contains(&member.to_string()))
IsmemberRead(t) ==
    /\ thr[t].pc = "ism_read"
    /\ read_ok(lk, thr[t].c.key)
    /\ lk' = unlock_shared(lk, "sets", t)
    /\ thr' = [thr EXCEPT ![t] =
                 Finish(thr[t], Ok(member_to_string(thr[t].c.member) \in sets[thr[t].c.key]))]
    /\ UNCHANGED <<now, obj_cache, hashsets, sets, inserted, lapsed, last>>

\* set_move: let sets = self.inner.sets.read(); sets.get(key1)
MoveTop(t) ==
    /\ thr[t].pc = "move_top"
    /\ read_ok(lk, "sets")
    /\ IF thr[t].c.key \in DOMAIN sets
       THEN /\ lk' = lock_shared(lk, "sets", t)
            /\ thr' = [thr EXCEPT ![t].pc = "move_check"]
       ELSE /\ lk' = lk
            /\ thr' = [thr EXCEPT ![t] = Finish(thr[t], Ok(FALSE))]
    /\ UNCHANGED <<now, obj_cache, hashsets, sets, inserted, lapsed, last>>

\* set_move: if set.read().contains(&set_member), the guard dropping with the
\* condition; then sets[key2], which panics when key2 has no container
MoveCheck(t) ==
    LET th == thr[t]
    IN  /\ th.pc = "move_check"
        /\ read_ok(lk, th.c.key)
        /\ IF member_to_string(th.c.member) \in sets[th.c.key]
           THEN IF th.c.key2 \in DOMAIN sets
                THEN /\ lk' = lk
                     /\ thr' = [thr EXCEPT ![t].pc = "move_dst_write"]
                ELSE /\ lk' = unlock_shared(lk, "sets", t)
                     /\ thr' = [thr EXCEPT ![t] = Finish(th, Panic("key not found"))]
           ELSE /\ lk' = unlock_shared(lk, "sets", t)
                /\ thr' = [thr EXCEPT ![t] = Finish(th, Ok(FALSE))]
        /\ UNCHANGED <<now, obj_cache, hashsets, sets, inserted, lapsed, last>>

\* set_move: sets[key2].write().insert(set_member.clone())
MoveInsert(t) ==
    LET th == thr[t]
    IN  /\ th.pc = "move_dst_write"
        /\ write_ok(lk, th.c.key2, t)
        /\ sets' = [sets EXCEPT ![th.c.key2] = @ \cup {member_to_string(th.c.member)}]
        /\ lk' = unlock_exclusive(lk, th.c.key2)
        /\ thr' = [thr EXCEPT ![t].pc = "move_src_write"]
        /\ UNCHANGED <<now, obj_cache, hashsets, inserted, lapsed, last>>

\* set_move: set.write().remove(&set_member); Ok(true)
MoveRemove(t) ==
    LET th == thr[t]
    IN  /\ th.pc = "move_src_write"
        /\ write_ok(lk, th.c.key, t)
        /\ sets' = [sets EXCEPT ![th.c.key] = @ \ {member_to_string(th.c.member)}]
        /\ lk' = unlock_shared(unlock_exclusive(lk, th.c.key), "sets", t)
        /\ thr' = [thr EXCEPT ![t] = Finish(th, Ok(TRUE))]
        /\ UNCHANGED <<now, obj_cache, hashsets, inserted, lapsed, last>>

\* the closure of the fold of each algebra
combine(op, acc, set) ==
    CASE op \in {"diff", "diffstore"} -> acc \ set
      [] op \in {"inter", "interstore"} -> acc \cap set
      [] op \in {"union", "unionstore"} -> acc \cup set

\* set_diff and the like: let sets = self.inner.sets.read(), and siter, the
\* containers of the keys that have one; none gives the empty result
AlgTop(t) ==
    LET th == thr[t]
    IN  /\ th.pc = "alg_top"
        /\ read_ok(lk, "sets")
        /\ IF siter(sets, th.c.keys) # <<>>
           THEN /\ lk' = lock_shared(lk, "sets", t)
                /\ thr' = [thr EXCEPT ![t].pc = "alg_first",
                                      ![t].v.keys = siter(sets, th.c.keys)]
           ELSE /\ lk' = lk
                /\ thr' = [thr EXCEPT ![t] =
                             Finish(th, IF th.c.op \in StoreOps THEN Ok(0) ELSE Ok({}))]
        /\ UNCHANGED <<now, obj_cache, hashsets, sets, inserted, lapsed, last>>

\* the initial value of the fold, set.read().clone(): the guard is a temporary
\* of the let statement and is held until the statement ends
AlgFirst(t) ==
    LET th == thr[t]
    IN  /\ th.pc = "alg_first"
        /\ read_ok(lk, th.v.keys[1])
        /\ lk' = lock_shared(lk, th.v.keys[1], t)
        /\ thr' = [thr EXCEPT ![t].pc = "alg_fold",
                              ![t].v.acc = sets[th.v.keys[1]],
                              ![t].v.i = 2]
        /\ UNCHANGED <<now, obj_cache, hashsets, sets, inserted, lapsed, last>>

\* one call of the closure: current_set_lock.read(), dropped when it returns
AlgFold(t) ==
    LET th == thr[t]
    IN  /\ th.pc = "alg_fold"
        /\ th.v.i <= Len(th.v.keys)
        /\ read_ok(lk, th.v.keys[th.v.i])
        /\ thr' = [thr EXCEPT ![t].v.acc = combine(th.c.op, @, sets[th.v.keys[th.v.i]]),
                              ![t].v.i = @ + 1]
        /\ UNCHANGED <<now, obj_cache, hashsets, sets, inserted, lapsed, last, lk>>

\* the end of the let statement: the guard of the first set drops; set_diff
\* returns the result, a store variant calls self.set_add with its guard of
\* the map still held
AlgEnd(t) ==
    LET th == thr[t]
    IN  /\ th.pc = "alg_fold"
        /\ th.v.i > Len(th.v.keys)
        /\ IF th.c.op \in StoreOps
           THEN /\ lk' = unlock_shared(lk, th.v.keys[1], t)
                /\ thr' = [thr EXCEPT ![t].pc = "ensure_set", ![t].v.inner = TRUE]
           ELSE /\ lk' = unlock_shared(unlock_shared(lk, th.v.keys[1], t), "sets", t)
                /\ thr' = [thr EXCEPT ![t] = Finish(th, Ok(th.v.acc))]
        /\ UNCHANGED <<now, obj_cache, hashsets, sets, inserted, lapsed, last>>

(***************************************************************************)
(* Two threads, one call each, on the set container store.                 *)
(***************************************************************************)
\* the stores the calls start from, each one the outcome of earlier add and
\* remove_member calls: no container, a container under "a", or containers
\* under all three keys with the ones under "b" and "d" emptied
SetStarts ==
    {EmptyMap}
      \cup {[k \in {"a"} |-> ms] : ms \in SUBSET {member_to_string(m) : m \in Members}}
      \cup {[k \in SetKeys |-> IF k = "a" THEN ms ELSE {}] :
              ms \in SUBSET {member_to_string(m) : m \in Members}}

\* the member a thread adds and removes, different for each thread
OwnMember(t) == IF t = "t1" THEN 1 ELSE 2

\* the calls a thread chooses from
SetCalls(t) ==
    {[op |-> "add", key |-> k, members |-> <<OwnMember(t)>>] : k \in {"a", "b"}}
      \cup {[op |-> "remove_member", key |-> "a", member |-> m] : m \in {1, OwnMember(t)}}
      \cup {[op |-> "is_member", key |-> "a", member |-> 1]}
      \cup {[op |-> "move_member", key |-> k[1], key2 |-> k[2], member |-> 1] :
              k \in {<<"a", "b">>, <<"b", "a">>, <<"a", "d">>}}
      \cup {[op |-> "diff", keys |-> ks] : ks \in {<<"a", "a">>, <<"a", "b">>, <<"b", "a">>}}
      \cup {[op |-> "diffstore", key |-> "d", keys |-> <<"a">>]}

InitSetThreads ==
    /\ now = 0
    /\ obj_cache = EmptyMap
    /\ hashsets = EmptyMap
    /\ sets \in SetStarts
    /\ inserted = EmptyMap
    /\ lapsed = {}
    /\ last = Idle
    /\ thr = [t \in Threads |-> Resting]
    /\ lk = [L \in LockIds |-> RwLock_new]

NextSetThreads ==
    \/ \E t \in Threads : \E c \in SetCalls(t) : Begin(t, c)
    \/ \E t \in Threads : LockExclusive(t)
    \/ \E t \in Threads : EnsureSetCheck(t)
    \/ \E t \in Threads : EnsureSetInsert(t)
    \/ \E t \in Threads : AddTop(t)
    \/ \E t \in Threads : AddInsert(t)
    \/ \E t \in Threads : RemTop(t)
    \/ \E t \in Threads : RemRemove(t)
    \/ \E t \in Threads : IsmemberTop(t)
    \/ \E t \in Threads : IsmemberRead(t)
    \/ \E t \in Threads : MoveTop(t)
    \/ \E t \in Threads : MoveCheck(t)
    \/ \E t \in Threads : MoveInsert(t)
    \/ \E t \in Threads : MoveRemove(t)
    \/ \E t \in Threads : AlgTop(t)
    \/ \E t \in Threads : AlgFirst(t)
    \/ \E t \in Threads : AlgFold(t)
    \/ \E t \in Threads : AlgEnd(t)

SpecSetThreads == InitSetThreads /\ [][NextSetThreads]_vars

(***************************************************************************)
(* Two threads, one call each, on the field-value container store.         *)
(***************************************************************************)
\* Inner::ensure_hash_exists, the check: self.hashsets.read().get(key).is_some()
EnsureHashCheck(t) ==
    /\ thr[t].pc = "ensure_hash"
    /\ read_ok(lk, "hashsets")
    /\ thr' = [thr EXCEPT ![t].pc = IF hash_exists(hashsets, thr[t].c.key)
                                    THEN IF thr[t].c.op = "set_multiple"
                                         THEN "mset_top" ELSE "sine_top"
                                    ELSE "ensure_hash_write"]
    /\ UNCHANGED <<now, obj_cache, hashsets, sets, inserted, lapsed, last, lk>>

\* Inner::ensure_hash_exists, the insert under self.hashsets.write(): the key
\* gets a new empty container, whatever it had; Err when it had one
EnsureHashInsert(t) ==
    /\ thr[t].pc = "ensure_hash_write"
    /\ write_ok(lk, "hashsets", t)
    /\ hashsets' = MapInsert(hashsets, thr[t].c.key, EmptyMap)
    /\ lk' = unlock_exclusive(lk, "hashsets")
    /\ thr' = [thr EXCEPT ![t] =
                 IF thr[t].c.key \in DOMAIN hashsets
                 THEN Finish(thr[t], Err("Unable to insert a new hashmap"))
                 ELSE [thr[t] EXCEPT !.pc = IF thr[t].c.op = "set_multiple"
                                            THEN "mset_top" ELSE "sine_top"]]
    /\ UNCHANGED <<now, obj_cache, sets, inserted, lapsed, last>>

\* hash_set_if_not_exists: let map = self.inner.hashsets.read(); map.get(key)
SetIfNotExistsTop(t) ==
    /\ thr[t].pc = "sine_top"
    /\ read_ok(lk, "hashsets")
    /\ IF thr[t].c.key \in DOMAIN hashsets
       THEN /\ lk' = lock_shared(lk, "hashsets", t)
            /\ thr' = [thr EXCEPT ![t].pc = "sine_check"]
       ELSE /\ lk' = lk
            /\ thr' = [thr EXCEPT ![t] =
                         Finish(thr[t], Err("Unable to retrive hash from key"))]
    /\ UNCHANGED <<now, obj_cache, hashsets, sets, inserted, lapsed, last>>

\* hash_set_if_not_exists: if hash.read().contains_key(field) { return Ok(false) },
\* the guard dropping with the condition
SetIfNotExistsCheck(t) ==
    /\ thr[t].pc = "sine_check"
    /\ read_ok(lk, thr[t].c.key)
    /\ IF thr[t].c.field \in DOMAIN hashsets[thr[t].c.key]
       THEN /\ lk' = unlock_shared(lk, "hashsets", t)
            /\ thr' = [thr EXCEPT ![t] = Finish(thr[t], Ok(FALSE))]
       ELSE /\ lk' = lk
            /\ thr' = [thr EXCEPT ![t].pc = "sine_write"]
    /\ UNCHANGED <<now, obj_cache, hashsets, sets, inserted, lapsed, last>>

\* hash_set_if_not_exists: hash.write().insert(field, value.to_string()); Ok(true)
SetIfNotExistsInsert(t) ==
    LET th == thr[t]
    IN  /\ th.pc = "sine_write"
        /\ write_ok(lk, th.c.key, t)
        /\ hashsets' = [hashsets EXCEPT ![th.c.key] =
                          MapInsert(@, th.c.field, value_to_string(th.c.value))]
        /\ lk' = unlock_shared(unlock_exclusive(lk, th.c.key), "hashsets", t)
        /\ thr' = [thr EXCEPT ![t] = Finish(th, Ok(TRUE))]
        /\ UNCHANGED <<now, obj_cache, sets, inserted, lapsed, last>>

\* the stores the calls start from, each one the outcome of earlier hash_set and
\* hash_delete calls; no container has the field "f1"
HashStarts ==
    {EmptyMap, [k \in {"h"} |-> EmptyMap], [k \in {"h"} |-> [f \in {"f2"} |-> value_to_string(1)]]}

\* the calls a thread chooses from: each thread passes a value of its own
HashCalls(t) ==
    {[op |-> "set_if_not_exists", key |-> k, field |-> f, value |-> OwnMember(t)] :
       k \in HashKeys, f \in Fields}

InitHashThreads ==
    /\ now = 0
    /\ obj_cache = EmptyMap
    /\ hashsets \in HashStarts
    /\ sets = EmptyMap
    /\ inserted = EmptyMap
    /\ lapsed = {}
    /\ last = Idle
    /\ thr = [t \in Threads |-> Resting]
    /\ lk = [L \in LockIds |-> RwLock_new]

NextHashThreads ==
    \/ \E t \in Threads : \E c \in HashCalls(t) : Begin(t, c)
    \/ \E t \in Threads : LockExclusive(t)
    \/ \E t \in Threads : EnsureHashCheck(t)
    \/ \E t \in Threads : EnsureHashInsert(t)
    \/ \E t \in Threads : SetIfNotExistsTop(t)
    \/ \E t \in Threads : SetIfNotExistsCheck(t)
    \/ \E t \in Threads : SetIfNotExistsInsert(t)

SpecHashThreads == InitHashThreads /\ [][NextHashThreads]_vars

(***************************************************************************)
(* Two threads, one call each, on the typed object store.                  *)
(***************************************************************************)
\* get, the block under self.inner.obj_cache.read(): the entry is returned, or
\* found expired and marked for deletion, or missing
GetRead(t) ==
    LET th == thr[t]
    IN  /\ th.pc = "get_read"
        /\ read_ok(lk, "obj_cache")
        /\ IF get_delete_entry(obj_cache, th.c.typ, th.c.key, now)
           THEN /\ thr' = [thr EXCEPT ![t].pc = "get_write"]
                /\ lapsed' = lapsed \cup {gen_key(th.c.typ, th.c.key)}
           ELSE /\ thr' = [thr EXCEPT ![t] =
                             Finish(th, get_result(obj_cache, th.c.typ, th.c.key, now))]
                /\ lapsed' = lapsed
        /\ UNCHANGED <<now, obj_cache, hashsets, sets, inserted, last, lk>>

\* get, if delete_entry: self.inner.obj_cache.write(), cache.remove(&tkey)
GetRemove(t) ==
    LET th == thr[t]
    IN  /\ th.pc = "get_write"
        /\ write_ok(lk, "obj_cache", t)
        /\ obj_cache' = MapRemove(obj_cache, gen_key(th.c.typ, th.c.key))
        /\ lk' = unlock_exclusive(lk, "obj_cache")
        /\ thr' = [thr EXCEPT ![t] = Finish(th, Ok(None))]
        /\ UNCHANGED <<now, hashsets, sets, inserted, lapsed, last>>

\* insert_with: expires_after.map(|ttl| Expiration::new(ttl)) reads the clock
\* before the lock is asked for
InsertWithExpiration(t) ==
    /\ thr[t].pc = "insert_exp"
    /\ thr' = [thr EXCEPT ![t].pc = "insert_write", ![t].v.i = now]
    /\ UNCHANGED <<now, obj_cache, hashsets, sets, inserted, lapsed, last, lk>>

\* insert_with: self.inner.obj_cache.write().insert(tkey, (Box::new(obj), exp))
InsertWithWrite(t) ==
    LET th == thr[t]
        tkey == gen_key(th.c.typ, th.c.key)
    IN  /\ th.pc = "insert_write"
        /\ write_ok(lk, "obj_cache", t)
        /\ obj_cache' = insert_with_store(obj_cache, th.c.typ, th.c.key, th.c.obj,
                                          th.c.ttl, th.v.i)
        /\ inserted' = MapInsert(inserted, tkey,
                                  History(th.c.obj, th.c.ttl, th.v.i, MapGet(obj_cache, tkey)))
        /\ lapsed' = lapsed \ {tkey}
        /\ lk' = unlock_exclusive(lk, "obj_cache")
        /\ thr' = [thr EXCEPT ![t] = Finish(th, Ok(TRUE))]
        /\ UNCHANGED <<now, hashsets, sets, last>>

\* the calls a thread chooses from
ObjCalls ==
    {[op |-> "get", typ |-> T, key |-> <<"k">>] : T \in Types}
      \cup UNION {{[op |-> "insert_with", typ |-> T, key |-> <<"k">>, obj |-> obj, ttl |-> ttl] :
                     obj \in Objs(T), ttl \in {None, Some(MaxTtl)}} : T \in Types}

\* the cache is empty at the start or holds an object under "k", inserted with
\* insert at time 0
InitObjThreads ==
    /\ now = 0
    /\ \/ obj_cache = EmptyMap /\ inserted = EmptyMap
       \/ \E T \in Types : \E obj \in Objs(T) :
            /\ obj_cache = insert_with_store(EmptyMap, T, <<"k">>, obj, expires_after(obj), 0)
            /\ inserted = MapInsert(EmptyMap, gen_key(T, <<"k">>),
                                    History(obj, expires_after(obj), 0, None))
    /\ hashsets = EmptyMap
    /\ sets = EmptyMap
    /\ lapsed = {}
    /\ last = Idle
    /\ thr = [t \in Threads |-> Resting]
    /\ lk = [L \in LockIds |-> RwLock_new]

NextObjThreads ==
    \/ Tick
    \/ \E t \in Threads : \E c \in ObjCalls : Begin(t, c)
    \/ \E t \in Threads : LockExclusive(t)
    \/ \E t \in Threads : GetRead(t)
    \/ \E t \in Threads : GetRemove(t)
    \/ \E t \in Threads : InsertWithExpiration(t)
    \/ \E t \in Threads : InsertWithWrite(t)

SpecObjThreads == InitObjThreads /\ [][NextObjThreads]_vars

(***************************************************************************)
(* set_multiple beside the readers of a container.                         *)
(***************************************************************************)
\* hash_multiple_set: let map = self.inner.hashsets.read(); map.get(key)
MultipleSetTop(t) ==
    /\ thr[t].pc = "mset_top"
    /\ read_ok(lk, "hashsets")
    /\ IF thr[t].c.key \in DOMAIN hashsets
       THEN /\ lk' = lock_shared(lk, "hashsets", t)
            /\ thr' = [thr EXCEPT ![t].pc = "mset_write"]
       ELSE /\ lk' = lk
            /\ thr' = [thr EXCEPT ![t] =
                         Finish(thr[t], Err("Unable to retrive hash from key"))]
    /\ UNCHANGED <<now, obj_cache, hashsets, sets, inserted, lapsed, last>>

\* a writer that gives the container lock up after each pair
guard_dropped_after_insert(l, L) == unlock_exclusive(l, L)

\* the container lock after one writer.insert of the loop: the guard writer
\* lives until the block ends
guard_after_insert(l, L) == l

\* hash_multiple_set: let mut writer = hash.write(), then one writer.insert for
\* each pair, then Ok(true) and the drop of both guards.  v.i counts the pairs
\* written; v.acc keeps, as history, the container as the first insert found it
MultipleSetInsert(t) ==
    LET th == thr[t]
    IN  /\ th.pc = "mset_write"
        /\ write_ok(lk, th.c.key, t)
        /\ IF th.v.i < Len(th.c.pairs)
           THEN /\ hashsets' = [hashsets EXCEPT ![th.c.key] =
                                  MapInsert(@, th.c.pairs[th.v.i + 1][1],
                                            value_to_string(th.c.pairs[th.v.i + 1][2]))]
                /\ lk' = guard_after_insert(lk, th.c.key)
                /\ thr' = [thr EXCEPT ![t].v.i = @ + 1,
                                      ![t].v.acc = IF th.v.i = 0 THEN hashsets[th.c.key] ELSE @]
           ELSE /\ hashsets' = hashsets
                /\ lk' = unlock_shared(unlock_exclusive(lk, th.c.key), "hashsets", t)
                /\ thr' = [thr EXCEPT ![t] = Finish(th, Ok(TRUE))]
        /\ UNCHANGED <<now, obj_cache, sets, inserted, lapsed, last>>

\* what each reading operation returns on a store
read_result(c, h) ==
    CASE c.op = "get_multiple" -> hash_multiple_get(h, c.key, c.fields)
      [] c.op = "keys" -> hash_keys(h, c.key)
      [] c.op = "values" -> hash_values(h, c.key)
      [] c.op = "len" -> hash_len(h, c.key)

\* hash_multiple_get, hash_keys, hash_values, hash_len:
\* let map = self.inner.hashsets.read(); map.get(key)
HashReadTop(t) ==
    /\ thr[t].pc = "hread_top"
    /\ read_ok(lk, "hashsets")
    /\ IF thr[t].c.key \in DOMAIN hashsets
       THEN /\ lk' = lock_shared(lk, "hashsets", t)
            /\ thr' = [thr EXCEPT ![t].pc = IF thr[t].c.op = "get_multiple"
                                            THEN "mget_first" ELSE "hread_whole"]
       ELSE /\ lk' = lk
            /\ thr' = [thr EXCEPT ![t] = Finish(thr[t], read_result(thr[t].c, hashsets))]
    /\ UNCHANGED <<now, obj_cache, hashsets, sets, inserted, lapsed, last>>

\* hash_keys, hash_values, hash_len: one expression under hash.read()
HashReadWhole(t) ==
    /\ thr[t].pc = "hread_whole"
    /\ read_ok(lk, thr[t].c.key)
    /\ lk' = unlock_shared(lk, "hashsets", t)
    /\ thr' = [thr EXCEPT ![t] = Finish(thr[t], read_result(thr[t].c, hashsets))]
    /\ UNCHANGED <<now, obj_cache, hashsets, sets, inserted, lapsed, last>>

\* hash_multiple_get: let reader = hash.read(), held over the loop
MultipleGetFirst(t) ==
    /\ thr[t].pc = "mget_first"
    /\ read_ok(lk, thr[t].c.key)
    /\ lk' = lock_shared(lk, thr[t].c.key, t)
    /\ thr' = [thr EXCEPT ![t].pc = "mget_push", ![t].v.i = 1]
    /\ UNCHANGED <<now, obj_cache, hashsets, sets, inserted, lapsed, last>>

\* hash_multiple_get: one vec.push of the loop (v.keys is the Vec), and after the
\* last one Ok(vec) and the drop of both guards
MultipleGetPush(t) ==
    LET th == thr[t]
    IN  /\ th.pc = "mget_push"
        /\ IF th.v.i <= Len(th.c.fields)
           THEN /\ lk' = lk
                /\ thr' = [thr EXCEPT ![t].v.keys =
                                        Append(@, MapGet(hashsets[th.c.key], th.c.fields[th.v.i])),
                                      ![t].v.i = @ + 1]
           ELSE /\ lk' = unlock_shared(unlock_shared(lk, th.c.key, t), "hashsets", t)
                /\ thr' = [thr EXCEPT ![t] = Finish(th, Ok(th.v.keys))]
        /\ UNCHANGED <<now, obj_cache, hashsets, sets, inserted, lapsed, last>>

\* the calls a thread chooses from; the pairs carry a value no container has at
\* the start
MultiCalls ==
    {[op |-> "set_multiple", key |-> k, pairs |-> [i \in 1..Len(fs) |-> <<fs[i], MaxValue>>]] :
       k \in HashKeys, fs \in {<<"f1">>, <<"f1", "f2">>, <<"f2", "f1">>}}
      \cup {[op |-> "get_multiple", key |-> k, fields |-> fs] : k \in HashKeys, fs \in FieldLists}
      \cup {[op |-> o, key |-> k] : o \in {"keys", "values", "len"}, k \in HashKeys}

\* the container under "h" exists at the start, the one under "g" does not
InitMultiThreads ==
    /\ now = 0
    /\ obj_cache = EmptyMap
    /\ hashsets \in HashStarts \ {EmptyMap}
    /\ sets = EmptyMap
    /\ inserted = EmptyMap
    /\ lapsed = {}
    /\ last = Idle
    /\ thr = [t \in Threads |-> Resting]
    /\ lk = [L \in LockIds |-> RwLock_new]

NextMultiThreads ==
    \/ \E t \in Threads : \E c \in MultiCalls : Begin(t, c)
    \/ \E t \in Threads : LockExclusive(t)
    \/ \E t \in Threads : EnsureHashCheck(t)
    \/ \E t \in Threads : EnsureHashInsert(t)
    \/ \E t \in Threads : MultipleSetTop(t)
    \/ \E t \in Threads : MultipleSetInsert(t)
    \/ \E t \in Threads : HashReadTop(t)
    \/ \E t \in Threads : HashReadWhole(t)
    \/ \E t \in Threads : MultipleGetFirst(t)
    \/ \E t \in Threads : MultipleGetPush(t)

SpecMultiThreads == InitMultiThreads /\ [][NextMultiThreads]_vars

(***************************************************************************)
(* Properties of the typed object store.                                     *)
(***************************************************************************)
\* the namespaced key of the call that has just returned
LastTKey == gen_key(last.typ, last.key)

\* whether the expiration exp (an Option) has elapsed at time t
Elapsed(exp, t) == IsSome(exp) /\ t - Unwrap(exp).insertion_time >= Unwrap(exp).ttl

\* C3, as the spec states it: after insert_with(k, obj, Some(ttl)) and once ttl
\* has elapsed, get(k) returns None, and a contains_key(k) issued after that get,
\* with no insert in between, still returns true.
TtlExpiryContainsStillTrue ==
    /\ (last.op = "get" /\ LastTKey \in DOMAIN inserted
          /\ IsSome(inserted[LastTKey].ttl)
          /\ now - inserted[LastTKey].at >= Unwrap(inserted[LastTKey].ttl))
        => last.ret = Ok(None)
    /\ (last.op = "contains_key" /\ LastTKey \in lapsed) => last.ret = Ok(TRUE)

\* C3, amended: after insert_with(k, obj, Some(ttl)) and once ttl has elapsed,
\* get(k) returns None, and a contains_key(k) issued after that get, with no
\* insert in between, returns false: the get has removed the entry.
TtlExpiryContainsFalseAfterGet ==
    /\ (last.op = "get" /\ LastTKey \in DOMAIN inserted
          /\ IsSome(inserted[LastTKey].ttl)
          /\ now - inserted[LastTKey].at >= Unwrap(inserted[LastTKey].ttl))
        => last.ret = Ok(None)
    /\ (last.op = "contains_key" /\ LastTKey \in lapsed) => last.ret = Ok(FALSE)

\* a contains_key has returned for a key whose entry a get had seen expired
TtlExpiryWitness ==
    /\ last.op = "contains_key"
    /\ LastTKey \in lapsed
    /\ LastTKey \in DOMAIN inserted
    /\ IsSome(inserted[LastTKey].ttl)

\* C7: lazy expiry.  A get that finds an entry whose expiration has elapsed
\* (elapsed time >= ttl, so a ttl of 0 is expired at once) returns None and the
\* entry is absent from the store when the get returns; a get that finds an
\* entry of the requested type with no expiration, or with one that has not
\* elapsed, returns the stored object and leaves the store unchanged.
LazyExpiry ==
    [][last'.op = "get" =>
        LET tkey == gen_key(last'.typ, last'.key)
        IN  tkey \in DOMAIN obj_cache =>
              IF Elapsed(obj_cache[tkey].exp, now)
              THEN /\ last'.ret = Ok(None)
                   /\ tkey \notin DOMAIN obj_cache'
                   /\ \A k \in DOMAIN obj_cache \ {tkey} :
                        k \in DOMAIN obj_cache' /\ obj_cache'[k] = obj_cache[k]
              ELSE obj_cache[tkey].obj.typ = last'.typ =>
                   /\ last'.ret = Ok(Some(obj_cache[tkey].obj))
                   /\ obj_cache' = obj_cache
    ]_vars

\* a get has found an entry with a ttl of 0 at the instant of its insertion,
\* returned None and removed it
LazyExpiryWitness ==
    /\ last.op = "get"
    /\ IsSome(last.found)
    /\ IsSome(Unwrap(last.found).exp)
    /\ Unwrap(Unwrap(last.found).exp).ttl = 0
    /\ Unwrap(Unwrap(last.found).exp).insertion_time = now
    /\ last.ret = Ok(None)
    /\ LastTKey \notin DOMAIN obj_cache

\* C8: contains_key does not look at expiration and never changes the store: it
\* returns true exactly when an entry is stored under the key, so also for an
\* entry whose TTL has elapsed and that no get has removed, at any later time.
ContainsKeyIgnoresExpiration ==
    [][last'.op = "contains_key" =>
        LET tkey == gen_key(last'.typ, last'.key)
        IN  /\ obj_cache' = obj_cache
            /\ last'.ret = Ok(tkey \in DOMAIN obj_cache)
            /\ (tkey \in DOMAIN obj_cache /\ Elapsed(obj_cache[tkey].exp, now))
                 => last'.ret = Ok(TRUE)
    ]_vars

\* contains_key has returned true for an entry whose TTL elapsed a while ago
ContainsKeyWitness ==
    /\ last.op = "contains_key"
    /\ IsSome(last.found)
    /\ IsSome(Unwrap(last.found).exp)
    /\ now - Unwrap(Unwrap(last.found).exp).insertion_time
         > Unwrap(Unwrap(last.found).exp).ttl
    /\ last.ret = Ok(TRUE)
    /\ LastTKey \in DOMAIN obj_cache

\* C9: round trip and overwrite.  A get of the type and key of the latest
\* insert or insert_with (none removed since) returns the object of that insert
\* as long as its TTL, counted from that insert, has not elapsed, and None once
\* it has; an insert with no TTL makes the entry never expire, whatever
\* expiration the entry it replaced had.
RoundTripAndOverwrite ==
    (last.op = "get" /\ LastTKey \in DOMAIN inserted
      /\ inserted[LastTKey].obj.typ = last.typ)
    => IF \/ inserted[LastTKey].ttl = None
          \/ now - inserted[LastTKey].at < Unwrap(inserted[LastTKey].ttl)
       THEN last.ret = Ok(Some(inserted[LastTKey].obj))
       ELSE last.ret = Ok(None)

\* a get has returned the object of an insert with no TTL that replaced an entry
\* with an expiration, at a time when any such expiration has elapsed
RoundTripWitness ==
    /\ last.op = "get"
    /\ LastTKey \in DOMAIN inserted
    /\ inserted[LastTKey].over
    /\ inserted[LastTKey].ttl = None
    /\ now >= inserted[LastTKey].at + MaxTtl
    /\ last.ret = Ok(Some(inserted[LastTKey].obj))

\* C13: type namespacing.  Objects of two different type identities stored under
\* the same caller key never affect each other: an insert, insert_with, remove
\* or expiring get of (T1, k) leaves what get and contains_key return for
\* (T2, k) unchanged when T1 and T2 have different type identities.
TypeNamespacing ==
    [][last'.op \in {"insert", "insert_with", "remove", "get"} =>
        \A T2 \in Types :
            model_name(T2) # model_name(last'.typ) =>
              /\ get_result(obj_cache', T2, last'.key, now)
                   = get_result(obj_cache, T2, last'.key, now)
              /\ contains_key_result(obj_cache', T2, last'.key)
                   = contains_key_result(obj_cache, T2, last'.key)
    ]_vars

\* an object of type T1 has been inserted under a caller key under which an
\* object of type T2 is stored, and both are in the store
TypeNamespacingWitness ==
    /\ last.op \in {"insert", "insert_with"}
    /\ last.typ = "T1"
    /\ gen_key("T1", last.key) \in DOMAIN obj_cache
    /\ gen_key("T2", last.key) \in DOMAIN obj_cache
    /\ obj_cache[gen_key("T1", last.key)].obj.typ = "T1"
    /\ obj_cache[gen_key("T2", last.key)].obj.typ = "T2"

(***************************************************************************)
(* Properties of the set container store.                                    *)
(***************************************************************************)
\* the positions of a key list whose key has a container in store s
Existing(s, keys) == {i \in 1..Len(keys) : keys[i] \in DOMAIN s}

\* the first of a non-empty set of positions
First(I) == CHOOSE i \in I : \A j \in I : i <= j

\* difference, intersection and union over a key list, as the spec defines them:
\* keys with no container are ignored, the first existing container is the
\* start, each later existing one is folded in; empty when there is none
ExpectedDiff(s, keys) ==
    LET E == Existing(s, keys)
    IN  IF E = {} THEN {}
        ELSE {m \in s[keys[First(E)]] :
                \A i \in E : i > First(E) => m \notin s[keys[i]]}

ExpectedInter(s, keys) ==
    LET E == Existing(s, keys)
    IN  IF E = {} THEN {}
        ELSE {m \in s[keys[First(E)]] : \A i \in E : m \in s[keys[i]]}

ExpectedUnion(s, keys) == UNION {s[keys[i]] : i \in Existing(s, keys)}

Expected(op, s, keys) ==
    CASE op \in {"diff", "diffstore"} -> ExpectedDiff(s, keys)
      [] op \in {"inter", "interstore"} -> ExpectedInter(s, keys)
      [] op \in {"union", "unionstore"} -> ExpectedUnion(s, keys)

\* C1: move_member(src, dst, m) when src contains m and no container exists under
\* dst returns false, a normal result and not an abort; src's member set is what
\* it was before the call and no container is created under dst.
MoveToMissingDstReturnsFalse ==
    (/\ last.op = "move_member"
     /\ last.key1 \in DOMAIN last.pre
     /\ ToString(last.member) \in last.pre[last.key1]
     /\ last.key2 \notin DOMAIN last.pre)
    => /\ last.ret = Ok(FALSE)
       /\ sets[last.key1] = last.pre[last.key1]
       /\ last.key2 \notin DOMAIN sets

\* C2: after a store variant the destination's member set is exactly what diff,
\* inter or union returns for the same key list on the state before the call,
\* whatever the destination held and also when the destination is in the key
\* list, and the number returned is the cardinality of the destination.
StoreVariantOverwritesDestination ==
    last.op \in StoreOps
    => /\ last.name \in DOMAIN sets
       /\ sets[last.name] = Expected(last.op, last.pre, last.keys)
       /\ last.ret = Ok(Cardinality(sets[last.name]))

\* C5: diff, inter and union ignore every key with no container, start from the
\* member set of the first key that has one and fold each later existing
\* container in, in list order; with no existing container the result is empty;
\* a missing key in first position does not empty diff or inter.  They change
\* no container.
SetAlgebraSkipsMissingKeys ==
    last.op \in {"diff", "inter", "union"}
    => /\ last.ret = Ok(Expected(last.op, last.pre, last.keys))
       /\ sets = last.pre

\* diff or inter over a list whose first key has no container has returned a
\* non-empty result
SetAlgebraWitness ==
    /\ last.op \in {"diff", "inter"}
    /\ Len(last.keys) >= 2
    /\ last.keys[1] \notin DOMAIN last.pre
    /\ last.ret.val # {}

\* C6: whenever move_member(src, dst, m) returns true, m is a member of dst
\* right after the call, for every src and dst, src = dst included.
MovedMemberIsInDst ==
    (last.op = "move_member" /\ last.ret = Ok(TRUE))
    => /\ last.key2 \in DOMAIN sets
       /\ ToString(last.member) \in sets[last.key2]

GetMultipleKeepsLengthAndOrder ==
    last.op = "get_multiple"
    => /\ last.ret.kind = "Ok"
       /\ Len(last.ret.val) = Len(last.fields)
       /\ \A i \in 1..Len(last.fields) :
            last.ret.val[i] =
              IF last.key \in DOMAIN last.pre
                 /\ last.fields[i] \in DOMAIN last.pre[last.key]
              THEN Some(last.pre[last.key][last.fields[i]])
              ELSE None

(***************************************************************************)
(* Properties of both container stores.                                      *)
(***************************************************************************)
\* what a read-style operation returns for a key with no container
AbsentResult(op) ==
    CASE op = "get_field" -> Ok(None)
      [] op = "exists" -> Ok(FALSE)
      [] op = "keys" -> Ok({})
      [] op = "values" -> Ok(<<>>)
      [] op = "len" -> Ok(0)
      [] op = "delete" -> Ok(TRUE)
      [] op = "card" -> Ok(0)
      [] op = "is_member" -> Ok(FALSE)
      [] op = "members" -> Ok({})
      [] op = "remove_member" -> Ok(FALSE)
      [] op \in {"diff", "inter", "union"} -> Ok({})

\* C11: absence is not an error and reads create nothing.  On a key with no
\* container hash get, exists, keys, values, len and delete, and cardinality,
\* is_member, members, remove, diff, inter and union return None, false, empty
\* or 0 (delete returns success), never an error, and the call leaves the set
\* of containers and their contents as they were.
AbsenceIsNotAnError ==
    /\ (last.op \in {"get_field", "exists", "keys", "values", "len", "delete"}
          /\ last.key \notin DOMAIN last.pre)
        => /\ last.ret = AbsentResult(last.op)
           /\ hashsets = last.pre
           /\ sets = EmptyMap
    /\ (last.op \in {"card", "is_member", "members", "remove_member"}
          /\ last.key \notin DOMAIN last.pre)
        => /\ last.ret = AbsentResult(last.op)
           /\ sets = last.pre
           /\ hashsets = EmptyMap
    /\ (last.op \in {"diff", "inter", "union"}
          /\ \A i \in 1..Len(last.keys) : last.keys[i] \notin DOMAIN last.pre)
        => /\ last.ret = AbsentResult(last.op)
           /\ sets = last.pre
           /\ hashsets = EmptyMap

\* delete has returned success for a key with no container while another
\* container holds a field, and has created nothing
AbsenceWitness ==
    /\ last.op = "delete"
    /\ last.fields # <<>>
    /\ last.key \notin DOMAIN last.pre
    /\ \E k \in DOMAIN last.pre : last.pre[k] # EmptyMap
    /\ last.ret = Ok(TRUE)
    /\ last.key \notin DOMAIN hashsets

\* C12: containers are never destroyed.  Once a field-value container or a set
\* container exists under a key, a container exists under that key in every
\* later state, also after all of its fields or members are removed.
ContainersAreNeverDestroyed ==
    [][/\ DOMAIN hashsets \subseteq DOMAIN hashsets'
       /\ DOMAIN sets \subseteq DOMAIN sets']_vars

\* the last member of a set has been removed and its container is still there
EmptiedContainerWitness ==
    /\ last.op = "remove_member"
    /\ last.ret = Ok(TRUE)
    /\ last.key \in DOMAIN sets
    /\ sets[last.key] = {}

(***************************************************************************)
(* Properties of the whole-object view.                                    *)
(***************************************************************************)
\* C14: whole-object view.  hash_get_all returns what get returns for the entry
\* found (an expired entry is removed), hash_set_all stores what insert stores,
\* and the field-level operations on the key see what hash_set_all stored: the
\* key has a container with at least one field once an object is stored under it.
WholeObjectView ==
    /\ last.op = "get_all" =>
         /\ last.ret = get_result(IF IsSome(last.found)
                                  THEN MapInsert(EmptyMap, gen_key(last.typ, last.key),
                                                 Unwrap(last.found))
                                  ELSE EmptyMap,
                                  last.typ, last.key, now)
         /\ (IsSome(last.found) /\ IsSome(Unwrap(last.found).exp)
               /\ is_expired(Unwrap(Unwrap(last.found).exp), now))
              => gen_key(last.typ, last.key) \notin DOMAIN obj_cache
    /\ last.op = "set_all" =>
         /\ last.ret = Ok(TRUE)
         /\ MapGet(obj_cache, gen_key(last.typ, last.key))
              = Some([obj |-> last.obj,
                      exp |-> IF IsSome(expires_after(last.obj))
                              THEN Some(Expiration_new(Unwrap(expires_after(last.obj)), now))
                              ELSE None])
         /\ hash_exists(hashsets, last.key)
         /\ hash_len(hashsets, last.key) # Ok(0)
    /\ last.op = "len" =>
         ((\E T \in Types : gen_key(T, last.key) \in DOMAIN obj_cache)
            => last.ret # Ok(0))

(***************************************************************************)
(* Properties of concurrent calls on the set container store.              *)
(***************************************************************************)
\* both threads have returned from their calls
AllReturned == \A t \in Threads : thr[t].pc = "done"

\* the members a call adds or removes
CallMembers(c) ==
    IF c.op = "add" THEN {c.members[i] : i \in 1..Len(c.members)} ELSE {c.member}

\* C15: no lost update on a set.  When the threads have called add or
\* remove_member on the same key with pairwise disjoint members, every call has
\* returned Ok, every add has returned true, and at the end every member added
\* is in the set and every member removed is not.
NoLostUpdate ==
    (/\ AllReturned
     /\ \A t \in Threads : thr[t].c.op \in {"add", "remove_member"} /\ thr[t].c.key = "a"
     /\ CallMembers(thr["t1"].c) \cap CallMembers(thr["t2"].c) = {})
    => \A t \in Threads :
         /\ Unwrap(thr[t].ret).kind = "Ok"
         /\ thr[t].c.op = "add" =>
              /\ Unwrap(thr[t].ret) = Ok(TRUE)
              /\ "a" \in DOMAIN sets
              /\ {member_to_string(m) : m \in CallMembers(thr[t].c)} \subseteq sets["a"]
         /\ (thr[t].c.op = "remove_member" /\ "a" \in DOMAIN sets) =>
              member_to_string(thr[t].c.member) \notin sets["a"]

\* C16: container creation is idempotent under races.  The insert of
\* ensure_set_exists never replaces a container the key already has, and the
\* call does not return an error.
ContainerCreationIsIdempotent ==
    [][\A t \in Threads :
         (thr[t].pc = "ensure_set_write" /\ thr'[t].pc # "ensure_set_write") =>
           /\ thr[t].c.key \in DOMAIN sets => sets' = sets
           /\ thr'[t].ret # Some(Err("Unable to insert a new hashset"))
    ]_vars

\* C17: deadlock freedom.  While a thread is inside a call some thread can take
\* a step: the calls in progress never all wait for each other.
NoThreadWaitsForever ==
    (\A t \in Threads : thr[t].pc \in {"idle", "done"}) \/ ENABLED NextSetThreads

\* the sets that hold member 1
Holders == {k \in DOMAIN sets : member_to_string(1) \in sets[k]}

\* a move of member 1 out of "a" into a container that exists
IsMoveFromA(c) ==
    c.op = "move_member" /\ c.key = "a" /\ c.member = 1 /\ c.key2 \in DOMAIN sets

\* C20: move_member is atomic.  A move of a member from src to another existing
\* set that runs beside a move, remove or membership test of the same member
\* leaves the member in at most one set, in exactly one when a move has returned
\* true and no call removed the member; two moves from the same src to two
\* different destinations never both return true.
MoveIsAtomic ==
    (/\ AllReturned
     /\ \E t \in Threads : IsMoveFromA(thr[t].c)
     /\ \A t \in Threads :
          /\ thr[t].c.op \in {"move_member", "remove_member", "is_member"}
          /\ thr[t].c.op = "move_member" => thr[t].c.key2 \in DOMAIN sets
          /\ thr[t].c.op # "move_member" => thr[t].c.member = 1)
    => /\ Cardinality(Holders) <= 1
       /\ ((\E t \in Threads : Unwrap(thr[t].ret) = Ok(TRUE) /\ thr[t].c.op = "move_member")
             /\ (\A t \in Threads : thr[t].c.op # "remove_member"))
            => Cardinality(Holders) = 1
       /\ (IsMoveFromA(thr["t1"].c) /\ IsMoveFromA(thr["t2"].c)
             /\ thr["t1"].c.key2 # thr["t2"].c.key2)
            => ~(Unwrap(thr["t1"].ret) = Ok(TRUE) /\ Unwrap(thr["t2"].ret) = Ok(TRUE))

(***************************************************************************)
(* Properties of concurrent calls on the field-value container store.      *)
(***************************************************************************)
\* C18: set_if_not_exists never overwrites a present field.  When both threads
\* have called it on the same key and the same field, absent at the start, with
\* different values, exactly one call has returned true, the other false, and
\* the field holds the value of the call that returned true.
SetIfNotExistsHasOneWinner ==
    (/\ AllReturned
     /\ thr["t1"].c.key = thr["t2"].c.key
     /\ thr["t1"].c.field = "f1"
     /\ thr["t2"].c.field = "f1")
    => \E t \in Threads :
         /\ Unwrap(thr[t].ret) = Ok(TRUE)
         /\ \A u \in Threads \ {t} : Unwrap(thr[u].ret) = Ok(FALSE)
         /\ thr[t].c.key \in DOMAIN hashsets
         /\ MapGet(hashsets[thr[t].c.key], "f1") = Some(value_to_string(thr[t].c.value))

(***************************************************************************)
(* Properties of concurrent calls on the typed object store.               *)
(***************************************************************************)
\* C19: get removes only the entry it saw expired.  When a get and an insert_with
\* of an object that does not expire, on the same key and type, have both
\* returned, the object is in the store.
GetRemovesOnlyWhatItSaw ==
    \A t \in Threads : \A u \in Threads \ {t} :
        (/\ AllReturned
         /\ thr[t].c.op = "get"
         /\ thr[u].c.op = "insert_with"
         /\ thr[u].c.ttl = None
         /\ thr[u].c.typ = thr[t].c.typ
         /\ thr[u].c.key = thr[t].c.key)
        => /\ gen_key(thr[u].c.typ, thr[u].c.key) \in DOMAIN obj_cache
           /\ obj_cache[gen_key(thr[u].c.typ, thr[u].c.key)].obj = thr[u].c.obj

(***************************************************************************)
(* Properties of set_multiple beside readers.                              *)
(***************************************************************************)
\* the container after all the pairs of a set_multiple are written into it
RECURSIVE insert_pairs(_, _)
insert_pairs(hash, pairs) ==
    IF pairs = <<>> THEN hash
    ELSE insert_pairs(MapInsert(hash, Head(pairs)[1], value_to_string(Head(pairs)[2])),
                      Tail(pairs))

\* the container under "h" as it was before the set_multiple of thread u wrote
BeforeWrite(u) == IF thr[u].v.i > 0 THEN thr[u].v.acc ELSE hashsets["h"]

\* what the call of thread t returns on the store whose container "h" is hash
ReadsOn(t, hash) == read_result(thr[t].c, MapInsert(hashsets, "h", hash))

\* C21: set_multiple is atomic towards readers.  A get_multiple, keys, values or
\* len that has run beside a set_multiple on the existing container has returned
\* what the container gave before the call wrote or what it gives with all the
\* pairs written, never a part of the pairs.
SetMultipleIsAtomicToReaders ==
    \A t \in Threads : \A u \in Threads \ {t} :
        (/\ thr[t].pc = "done"
         /\ thr[t].c.op \in {"get_multiple", "keys", "values", "len"}
         /\ thr[t].c.key = "h"
         /\ thr[u].c.op = "set_multiple"
         /\ thr[u].c.key = "h")
        => \/ Unwrap(thr[t].ret) = ReadsOn(t, BeforeWrite(u))
           \/ Unwrap(thr[t].ret) = ReadsOn(t, insert_pairs(BeforeWrite(u), thr[u].c.pairs))

\* a get_multiple of two fields has returned, with both threads done, what the
\* container holds after a set_multiple of two pairs, different from what it
\* held before
SetMultipleWitness ==
    \E t \in Threads : \E u \in Threads \ {t} :
        /\ AllReturned
        /\ thr[t].c.op = "get_multiple"
        /\ thr[t].c.key = "h"
        /\ Len(thr[t].c.fields) = 2
        /\ thr[u].c.op = "set_multiple"
        /\ thr[u].c.key = "h"
        /\ Len(thr[u].c.pairs) = 2
        /\ Unwrap(thr[t].ret) = ReadsOn(t, insert_pairs(BeforeWrite(u), thr[u].c.pairs))
        /\ Unwrap(thr[t].ret) # ReadsOn(t, BeforeWrite(u))

====
